---- MODULE Spec2Model ----
(***************************************************************************)
(* Verification model of the export normalisation pipeline of              *)
(* Proposal_Builder: the image readiness barrier (preloadImages), the      *)
(* SafeHtml component, the grid layout's sanitised rendering and dialog,   *)
(* the image, text and SVG normalisers (processImages,                     *)
(* processTextElements, processSvgElements), and the shape and control     *)
(* passes (processShapeElements, hideUiControls) composed over one page.   *)
(*                                                                         *)
(* Each component has its own specification over the shared variables; a   *)
(* component that a specification does not exercise stays in its initial   *)
(* state.                                                                  *)
(***************************************************************************)
EXTENDS Integers, Sequences, FiniteSets, TLC

VARIABLES
    \* ---- readiness barrier (optimizedImageProcessor.ts, preloadImages)
    imgState,     \* per image: "loading" (img.complete false), "loaded", "broken"
    onload,       \* per image: the installed img.onload closure, or NoHandler
    onerror,      \* per image: the installed img.onerror closure, or NoHandler
    coll,         \* per call: the collection passed to preloadImages
    inner,        \* per call: state of the promise created for each element
    outer,        \* per call: the promise preloadImages returned
    atCall,       \* per call: images of the collection incomplete at call time
    fired,        \* per call: images that fired load or error since the call
    \* ---- SafeHtml component (unnamed/part_002)
    shPhase,      \* "setup" (container ref unbound), "mounted", "unmounted"
    html,         \* props.html
    container,    \* container.innerHTML
    watchOld,     \* value of props.html the watcher saw last
    watchPending, \* the watcher job is queued
    lastRender,   \* outcome of the latest renderSafeHtml
    shRenders,    \* renderSafeHtml calls so far
    escaped,      \* an exception left renderSafeHtml
    \* ---- grid layout component (optimizedTextProcessor.ts, lines 146-405)
    gridPhase,    \* "setup" (grid is null), "mounted", "unmounted"
    items,        \* items.value
    showAddDialog,
    editingIndex, \* NoIndex for null, otherwise the 1-based position in items
    editingItem,  \* title and content bound to the dialog's fields
    cells,        \* per rendered item: whether it has a .html-content
                  \* container, and that container's innerHTML
    timers,       \* pending setTimeout(..., 0) render callbacks
    openedByButton, \* history: the open dialog was opened by the Add Block
                  \* button
    \* ---- image normaliser (optimizedImageProcessor.ts, processImages)
    imgDom,       \* per image: crossOrigin and inline style
    computedFit,  \* per image: getComputedStyle(img).objectFit
    parentOf,     \* per image: its parentElement, or NoParent
    boxStyle,     \* per parent element: its inline style
    pre,          \* imgDom and boxStyle before the latest processImages
    applied,      \* per image: the objectFit the latest call passed to
                  \* applyObjectFitStyles, NotProcessed outside its collection
    lastArgs,     \* arguments of the latest processImages
    streak,       \* consecutive processImages calls with those arguments
    processCalls, \* processImages calls so far
    \* ---- text normaliser (optimizedTextProcessor.ts, processTextElements)
    textDom,      \* the text element, its .element-content and descendants
    textPre,      \* textDom before the latest processTextElements
    textCalls,    \* processTextElements calls so far
    \* ---- SVG normaliser (optimizedImageProcessor.ts, processSvgElements)
    svgDom,       \* the SVG root: attributes, inline style, child elements
    svgPre,       \* svgDom before the latest processSvgElements
    svgCalls,     \* processSvgElements calls so far
    \* ---- capture scope (processShapeElements, hideUiControls and the
    \*      other passes over one page element)
    scope,        \* the page element (first) and the other elements of the
                  \* document: classification, attributes and inline style
    scope0,       \* scope before the first pass
    passesDone    \* the passes that have run over the scope

preloadVars == <<imgState, onload, onerror, coll, inner, outer, atCall, fired>>
safeHtmlVars == <<shPhase, html, container, watchOld, watchPending,
                  lastRender, shRenders, escaped>>
gridVars == <<gridPhase, items, showAddDialog, editingIndex, editingItem, cells,
              timers, openedByButton>>
imageVars == <<imgDom, computedFit, parentOf, boxStyle, pre, applied, lastArgs,
               streak, processCalls>>
textVars == <<textDom, textPre, textCalls>>
svgVars == <<svgDom, svgPre, svgCalls>>
scopeVars == <<scope, scope0, passesDone>>
vars == <<preloadVars, safeHtmlVars, gridVars, imageVars, textVars, svgVars, scopeVars>>

(***************************************************************************)
(* Bounds                                                                  *)
(***************************************************************************)
MaxColl == 2        \* longest collection handed to preloadImages
MaxCalls == 2       \* preloadImages calls in one run
MaxNodes == 2       \* top-level nodes of an html fragment
MaxRenders == 3     \* renderSafeHtml calls of one SafeHtml instance
MaxItems == 2       \* blocks in the grid layout
MaxTimers == 2      \* render callbacks pending at once
MaxProcess == 2     \* processImages calls in one run
MaxKids == 2        \* descendants of a text element's content element
MaxTextCalls == 2   \* processTextElements calls in one run
MaxShapes == 1      \* child elements of an SVG root
MaxSvgCalls == 2    \* processSvgElements calls in one run
MaxScope == 2       \* elements of the document besides the page element

RECURSIVE SeqsUpTo(_, _)
SeqsUpTo(S, n) ==
    IF n = 0 THEN {<<>>}
    ELSE LET shorter == SeqsUpTo(S, n - 1)
         IN  shorter \cup {Append(s, x) : s \in shorter, x \in S}

(***************************************************************************)
(* preloadImages                                                           *)
(***************************************************************************)
Imgs == {"img1", "img2"}
Calls == 1..MaxCalls
Collections == SeqsUpTo(Imgs, MaxColl)
NoHandler == <<0, 0>>                  \* no closure installed
Idle == [state |-> "idle", value |-> "-"]
Pending == [state |-> "pending", value |-> "-"]

\* img.complete
Complete(i) == imgState[i] # "loading"

\* The executor of the promise created for one element, before any event:
\* resolve() at once when img.complete, otherwise wait for a handler.
ExecutorBroken(complete) == "fulfilled"
Executor(complete) == IF complete THEN "fulfilled" ELSE "pending"

\* img.onload = () => resolve(): settles the promise the closure captured.
\* Resolving a settled promise changes nothing.
Resolve(inn, h) ==
    IF inn[h[1]][h[2]] = "pending"
    THEN [inn EXCEPT ![h[1]][h[2]] = "fulfilled"]
    ELSE inn
OnloadHandler(inn, h) == Resolve(inn, h)
\* img.onerror = () => resolve()
OnerrorRejects(inn, h) ==
    IF inn[h[1]][h[2]] = "pending"
    THEN [inn EXCEPT ![h[1]][h[2]] = "rejected"]
    ELSE inn
OnerrorHandler(inn, h) == Resolve(inn, h)

\* Array.from(images).map(...): the elements are visited in order; an
\* incomplete image gets both handler properties assigned, replacing
\* whatever closure was there.
RECURSIVE InstallFrom(_, _, _, _)
InstallFrom(hs, c, images, k) ==
    IF k > Len(images) THEN hs
    ELSE InstallFrom(
             IF Complete(images[k]) THEN hs
             ELSE [hs EXCEPT ![images[k]] = <<c, k>>],
             c, images, k + 1)

\* Promise.all over the element promises, then the implicit return of the
\* async function: resolved with undefined, or rejected with the first
\* rejection.
AllFulfilled(c) == \A k \in 1..Len(inner[c]) : inner[c][k] = "fulfilled"
SomeRejected(c) == \E k \in 1..Len(inner[c]) : inner[c][k] = "rejected"
JoinResult(c) ==
    IF SomeRejected(c) THEN [state |-> "rejected", value |-> "error"]
    ELSE IF AllFulfilled(c) THEN [state |-> "resolved", value |-> "undefined"]
    ELSE outer[c]

\* preloadImages(images), the c-th call of the run: runs synchronously up to
\* the await.
PreloadImages(c, images) ==
    /\ outer[c].state = "idle"
    /\ \A d \in Calls : d < c => outer[d].state # "idle"
    /\ coll' = [coll EXCEPT ![c] = images]
    /\ inner' = [inner EXCEPT ![c] =
                    [k \in 1..Len(images) |-> Executor(Complete(images[k]))]]
    /\ onload' = InstallFrom(onload, c, images, 1)
    /\ onerror' = InstallFrom(onerror, c, images, 1)
    /\ outer' = [outer EXCEPT ![c] = Pending]
    /\ atCall' = [atCall EXCEPT ![c] =
                    {images[k] : k \in {j \in 1..Len(images) : ~Complete(images[j])}}]
    /\ UNCHANGED <<imgState, fired>>
    /\ UNCHANGED <<safeHtmlVars, gridVars, imageVars, textVars, svgVars, scopeVars>>

Started(c) == outer[c].state # "idle"
NoteFired(i) == [c \in Calls |-> IF Started(c) THEN fired[c] \cup {i} ELSE fired[c]]

\* The browser delivers the load event of a loading image.
FireLoad(i) ==
    /\ imgState[i] = "loading"
    /\ imgState' = [imgState EXCEPT ![i] = "loaded"]
    /\ inner' = IF onload[i] = NoHandler THEN inner ELSE OnloadHandler(inner, onload[i])
    /\ fired' = NoteFired(i)
    /\ UNCHANGED <<onload, onerror, coll, outer, atCall>>
    /\ UNCHANGED <<safeHtmlVars, gridVars, imageVars, textVars, svgVars, scopeVars>>

\* The browser delivers the error event of a loading image.
FireError(i) ==
    /\ imgState[i] = "loading"
    /\ imgState' = [imgState EXCEPT ![i] = "broken"]
    /\ inner' = IF onerror[i] = NoHandler THEN inner ELSE OnerrorHandler(inner, onerror[i])
    /\ fired' = NoteFired(i)
    /\ UNCHANGED <<onload, onerror, coll, outer, atCall>>
    /\ UNCHANGED <<safeHtmlVars, gridVars, imageVars, textVars, svgVars, scopeVars>>

\* The microtask that settles the returned promise once Promise.all settled.
Join(c) ==
    /\ outer[c].state = "pending"
    /\ JoinResult(c) # outer[c]
    /\ outer' = [outer EXCEPT ![c] = JoinResult(c)]
    /\ UNCHANGED <<imgState, onload, onerror, coll, inner, atCall, fired>>
    /\ UNCHANGED <<safeHtmlVars, gridVars, imageVars, textVars, svgVars, scopeVars>>

PreloadAt(st) ==
    /\ imgState = st
    /\ onload = [i \in Imgs |-> NoHandler]
    /\ onerror = [i \in Imgs |-> NoHandler]
    /\ coll = [c \in Calls |-> <<>>]
    /\ inner = [c \in Calls |-> <<>>]
    /\ outer = [c \in Calls |-> Idle]
    /\ atCall = [c \in Calls |-> {}]
    /\ fired = [c \in Calls |-> {}]
InitPreload == \E st \in [Imgs -> {"loading", "loaded", "broken"}] : PreloadAt(st)
IdlePreload == PreloadAt([i \in Imgs |-> "loaded"])

(***************************************************************************)
(* HTML fragments and the sanitiser                                        *)
(*                                                                         *)
(* A fragment is a sequence of nodes; a node has a tag, the names of its   *)
(* attributes and its child nodes.  Attribute values are not represented:  *)
(* the policies of this repository select by tag and attribute name.       *)
(***************************************************************************)
TextNode == [tag |-> "#text", attrs |-> {}, kids |-> <<>>]
El(t, as) == [tag |-> t, attrs |-> as, kids |-> <<TextNode>>]
NestedNode ==
    [tag |-> "p", attrs |-> {"class", "onclick"},
     kids |-> <<El("script", {}), El("u", {"style"})>>]
NodeSet == {TextNode, El("u", {"style"}), El("a", {"href", "onclick"}), NestedNode}
Fragments == SeqsUpTo(NodeSet, MaxNodes)
NoFragment == <<>>

\* A value bound to a raw-content property: a string holding a fragment, or
\* (str = FALSE) a value that has no string form.
StringOf(f) == [str |-> TRUE, frag |-> f]
NotAString == [str |-> FALSE, frag |-> NoFragment]
HtmlValues == {StringOf(f) : f \in Fragments} \cup {NotAString}

\* Elements whose content the sanitiser drops together with the element;
\* any other disallowed element is removed and its content kept.
ForbidContents == {"script", "style", "iframe", "noscript", "template"}

\* DOMPurify.sanitize on a parsed fragment under ALLOWED_TAGS / ALLOWED_ATTR.
RECURSIVE SanitizeNodes(_, _, _)
SanitizeNodes(nodes, tags, attrs) ==
    IF nodes = <<>> THEN <<>>
    ELSE LET n == Head(nodes)
             rest == SanitizeNodes(Tail(nodes), tags, attrs)
         IN  IF n.tag = "#text" THEN <<n>> \o rest
             ELSE IF n.tag \in tags
             THEN <<[tag |-> n.tag,
                     attrs |-> n.attrs \cap attrs,
                     kids |-> SanitizeNodes(n.kids, tags, attrs)]>> \o rest
             ELSE IF n.tag \in ForbidContents THEN rest
             ELSE SanitizeNodes(n.kids, tags, attrs) \o rest

\* DOMPurify.sanitize(dirty, cfg): the sanitised string, or a TypeError for
\* a value that has no string form.
Sanitize(dirty, tags, attrs) ==
    [ok |-> dirty.str,
     out |-> IF dirty.str THEN SanitizeNodes(dirty.frag, tags, attrs) ELSE NoFragment]

\* Tags and attribute names occurring anywhere in a fragment.
RECURSIVE TagsOf(_)
TagsOf(nodes) ==
    IF nodes = <<>> THEN {}
    ELSE (IF Head(nodes).tag = "#text" THEN {} ELSE {Head(nodes).tag})
         \cup TagsOf(Head(nodes).kids) \cup TagsOf(Tail(nodes))
RECURSIVE AttrsOf(_)
AttrsOf(nodes) ==
    IF nodes = <<>> THEN {}
    ELSE Head(nodes).attrs \cup AttrsOf(Head(nodes).kids) \cup AttrsOf(Tail(nodes))

(***************************************************************************)
(* SafeHtml component                                                      *)
(***************************************************************************)
SafeHtmlTags == {"p", "br", "b", "i", "em", "strong", "u", "span", "div"}
SafeHtmlAttrs == {"style", "class"}

\* container.value.innerHTML = sanitizedHtml
InnerHtmlAppended(old, raw, sanitized) == old \o sanitized
InnerHtmlRaw(old, raw, sanitized) == raw.frag
InnerHtmlAfterRender(old, raw, sanitized) == sanitized

\* renderSafeHtml() with the container bound and props.html = raw:
\* sanitise, then assign innerHTML.  Nothing catches a throw of the
\* sanitiser, so it leaves the function before the assignment.
RenderSafeHtml(raw) ==
    LET r == Sanitize(raw, SafeHtmlTags, SafeHtmlAttrs)
    IN  /\ shRenders' = shRenders + 1
        /\ IF r.ok
           THEN /\ container' = InnerHtmlAfterRender(container, raw, r.out)
                /\ lastRender' = "ok"
                /\ UNCHANGED escaped
           ELSE /\ lastRender' = "threw"
                /\ escaped' = TRUE
                /\ UNCHANGED container

\* The parent creates the component with html = h; setup registers the
\* watcher, and onMounted(() => renderSafeHtml()) runs with the container
\* bound.  (A page hosts one of the two rendering components in a run.)
Mount(h) ==
    /\ shPhase = "setup"
    /\ gridPhase = "setup"
    /\ shPhase' = "mounted"
    /\ html' = h
    /\ watchOld' = h
    /\ RenderSafeHtml(h)
    /\ UNCHANGED watchPending
    /\ UNCHANGED <<preloadVars, gridVars, imageVars, textVars, svgVars, scopeVars>>

\* The parent binds another value to the html prop: the watcher job is queued.
SetHtml(h) ==
    /\ shPhase = "mounted"
    /\ shRenders < MaxRenders
    /\ h # html
    /\ html' = h
    /\ watchPending' = TRUE
    /\ UNCHANGED <<shPhase, container, watchOld, lastRender, shRenders, escaped>>
    /\ UNCHANGED <<preloadVars, gridVars, imageVars, textVars, svgVars, scopeVars>>

\* The queued watcher job: watch(() => props.html, () => renderSafeHtml())
\* calls back when the value differs from the one it saw last.
RunWatcher ==
    /\ shPhase = "mounted"
    /\ watchPending
    /\ watchPending' = FALSE
    /\ watchOld' = html
    /\ IF html # watchOld
       THEN RenderSafeHtml(html)
       ELSE UNCHANGED <<container, lastRender, shRenders, escaped>>
    /\ UNCHANGED <<shPhase, html>>
    /\ UNCHANGED <<preloadVars, gridVars, imageVars, textVars, svgVars, scopeVars>>

\* The component is unmounted: its watcher stops and its container leaves
\* the document.
Unmount ==
    /\ shPhase = "mounted"
    /\ shPhase' = "unmounted"
    /\ watchPending' = FALSE
    /\ UNCHANGED <<html, container, watchOld, lastRender, shRenders, escaped>>
    /\ UNCHANGED <<preloadVars, gridVars, imageVars, textVars, svgVars, scopeVars>>

InitSafeHtml ==
    /\ shPhase = "setup"
    /\ html = StringOf(NoFragment)
    /\ container = NoFragment
    /\ watchOld = StringOf(NoFragment)
    /\ watchPending = FALSE
    /\ lastRender = "none"
    /\ shRenders = 0
    /\ escaped = FALSE

(***************************************************************************)
(* Grid layout component                                                   *)
(*                                                                         *)
(* The rendered list is the one the template produces (v-for keyed by      *)
(* index); GridStack's own bookkeeping of widgets is outside the model.    *)
(* Runs in which a stale editingIndex points more than one position past   *)
(* the end of items are not explored.                                      *)
(***************************************************************************)
GridTags == {"p", "br", "b", "i", "em", "strong", "a", "ul", "ol", "li",
             "span", "div", "h1", "h2", "h3", "h4", "h5", "h6"}
GridAttrs == {"href", "target", "class", "style"}

NoIndex == 0
\* What the user types into the title field: the field is cleared (a block
\* saved without title is named "Untitled Block").
Titles == {""}
\* What the user types into the content field: plain text (the empty text
\* stands for it) or one of two pieces of markup.
GridContents ==
    {NoFragment, <<NestedNode>>, <<El("a", {"href"})>>}
NotANumber == -1
GridPositions == {[x |-> 0, y |-> 0, w |-> 6, h |-> 4], [x |-> 3, y |-> 2, w |-> 4, h |-> 3]}
BlankEditing == [title |-> "", content |-> NoFragment]

\* isHtmlContent: /<[a-z][\s\S]*>/i matches when the text holds a tag.
IsHtmlContent(content) == \E k \in 1..Len(content) : content[k].tag # "#text"

\* element.innerHTML = sanitizedHtml (grid layout's renderSafeHtml)
GridInnerHtmlRaw(old, raw, sanitized) == raw
GridInnerHtmlAfterRender(old, raw, sanitized) == sanitized

\* renderSafeHtml(content, element): the element's innerHTML afterwards.
GridRenderSafeHtml(content, old) ==
    GridInnerHtmlAfterRender(old, content,
        Sanitize(StringOf(content), GridTags, GridAttrs).out)

\* The template after a change of items: item i keeps its element; its
\* .html-content container is kept while the v-if branch stays the same
\* and is a fresh, empty element otherwise.
VuePatch(old, newItems) ==
    [i \in 1..Len(newItems) |->
        IF i <= Len(old) /\ old[i].html = IsHtmlContent(newItems[i].content)
        THEN old[i]
        ELSE [html |-> IsHtmlContent(newItems[i].content), inner |-> NoFragment]]

\* document.querySelectorAll(".html-content"): the positions of the rendered
\* items that have such a container, in document order.
RECURSIVE HtmlContainersFrom(_, _)
HtmlContainersFrom(cs, i) ==
    IF i > Len(cs) THEN <<>>
    ELSE (IF cs[i].html THEN <<i>> ELSE <<>>) \o HtmlContainersFrom(cs, i + 1)
HtmlContainers(cs) == HtmlContainersFrom(cs, 1)

\* The body of the deferred callback: the container found at position
\* index of the query result is rendered from items.value[index].
RECURSIVE RenderLoop(_, _, _)
RenderLoop(cs, found, k) ==
    IF k > Len(found) THEN cs
    ELSE RenderLoop(
             IF k <= Len(items) /\ IsHtmlContent(items[k].content)
             THEN [cs EXCEPT ![found[k]].inner =
                       GridRenderSafeHtml(items[k].content, cs[found[k]].inner)]
             ELSE cs,
             found, k + 1)

\* onMounted: GridStack.init, then the initial deferred render.
\* (A page hosts one of the two rendering components in a run.)
GridMount ==
    /\ gridPhase = "setup"
    /\ shPhase = "setup"
    /\ gridPhase' = "mounted"
    /\ timers' = timers + 1
    /\ UNCHANGED <<items, showAddDialog, editingIndex, editingItem, cells>>
    /\ UNCHANGED openedByButton
    /\ UNCHANGED <<preloadVars, safeHtmlVars, imageVars, textVars, svgVars, scopeVars>>

\* addItem(), exposed to the parent component.
AddItem ==
    /\ gridPhase = "mounted"
    /\ editingIndex' = NoIndex
    /\ editingItem' = BlankEditing
    /\ showAddDialog' = TRUE
    /\ UNCHANGED <<gridPhase, items, cells, timers>>
    /\ openedByButton' = FALSE
    /\ UNCHANGED <<preloadVars, safeHtmlVars, imageVars, textVars, svgVars, scopeVars>>

\* The Add Block button: @click="showAddDialog = true".
ClickAddBlock ==
    /\ gridPhase = "mounted"
    /\ ~showAddDialog
    /\ showAddDialog' = TRUE
    /\ UNCHANGED <<gridPhase, items, editingIndex, editingItem, cells, timers>>
    /\ openedByButton' = TRUE
    /\ UNCHANGED <<preloadVars, safeHtmlVars, imageVars, textVars, svgVars, scopeVars>>

\* editItem(index), from an item's pencil button.
EditItem(index) ==
    /\ gridPhase = "mounted"
    /\ ~showAddDialog
    /\ index \in 1..Len(items)
    /\ editingIndex' = index
    /\ editingItem' = [title |-> items[index].title, content |-> items[index].content]
    /\ showAddDialog' = TRUE
    /\ UNCHANGED <<gridPhase, items, cells, timers>>
    /\ openedByButton' = FALSE
    /\ UNCHANGED <<preloadVars, safeHtmlVars, imageVars, textVars, svgVars, scopeVars>>

\* The dialog's fields (v-model on editingItem.title / editingItem.content).
TypeTitle(t) ==
    /\ showAddDialog
    /\ t # editingItem.title
    /\ editingItem' = [editingItem EXCEPT !.title = t]
    /\ UNCHANGED <<gridPhase, items, showAddDialog, editingIndex, cells, timers>>
    /\ UNCHANGED openedByButton
    /\ UNCHANGED <<preloadVars, safeHtmlVars, imageVars, textVars, svgVars, scopeVars>>

TypeContent(c) ==
    /\ showAddDialog
    /\ c # editingItem.content
    /\ editingItem' = [editingItem EXCEPT !.content = c]
    /\ UNCHANGED <<gridPhase, items, showAddDialog, editingIndex, cells, timers>>
    /\ UNCHANGED openedByButton
    /\ UNCHANGED <<preloadVars, safeHtmlVars, imageVars, textVars, svgVars, scopeVars>>

\* The Cancel button: @click="showAddDialog = false".
ClickCancel ==
    /\ showAddDialog
    /\ showAddDialog' = FALSE
    /\ UNCHANGED <<gridPhase, items, editingIndex, editingItem, cells, timers>>
    /\ openedByButton' = FALSE
    /\ UNCHANGED <<preloadVars, safeHtmlVars, imageVars, textVars, svgVars, scopeVars>>

\* The item saveItem builds from the dialog's fields.
NewItem ==
    [x |-> 0, y |-> 0, w |-> 6, h |-> 4,
     title |-> IF editingItem.title = "" THEN "Untitled Block" ELSE editingItem.title,
     content |-> editingItem.content]

\* items.value after saveItem: { ...items[editingIndex], ...newItem } at
\* editingIndex, or newItem pushed.
ItemsAfterSave ==
    IF editingIndex # NoIndex /\ editingIndex <= Len(items)
    THEN [items EXCEPT ![editingIndex] = NewItem]
    ELSE Append(items, NewItem)

\* Changing items triggers the deep watcher, which defers a render; the
\* template is patched before the deferred callback can run.
ItemsChanged(newItems) ==
    /\ items' = newItems
    /\ cells' = VuePatch(cells, newItems)
    /\ timers' = timers + 1

\* saveItem(), from the dialog's Save button.
SaveItem ==
    /\ showAddDialog
    /\ gridPhase = "mounted"
    /\ timers < MaxTimers
    /\ editingIndex <= Len(items) + 1
    /\ Len(ItemsAfterSave) <= MaxItems
    /\ ItemsChanged(ItemsAfterSave)
    /\ showAddDialog' = FALSE
    /\ editingIndex' = NoIndex
    /\ editingItem' = BlankEditing
    /\ UNCHANGED gridPhase
    /\ openedByButton' = FALSE
    /\ UNCHANGED <<preloadVars, safeHtmlVars, imageVars, textVars, svgVars, scopeVars>>

\* removeItem(index), from an item's delete button.
RemoveItem(index) ==
    /\ gridPhase = "mounted"
    /\ ~showAddDialog
    /\ timers < MaxTimers
    /\ index \in 1..Len(items)
    /\ ItemsChanged([i \in 1..(Len(items) - 1) |->
                        IF i < index THEN items[i] ELSE items[i + 1]])
    /\ UNCHANGED <<gridPhase, showAddDialog, editingIndex, editingItem>>
    /\ UNCHANGED openedByButton
    /\ UNCHANGED <<preloadVars, safeHtmlVars, imageVars, textVars, svgVars, scopeVars>>

\* grid.on("change"): updateItemsPositions for one moved or resized widget.
\* gsId is what parseInt(el.getAttribute("gs-id"), 10) yields: NotANumber
\* when the element carries no such attribute, else a 0-based index.
GridChange(gsId, pos) ==
    /\ gridPhase = "mounted"
    /\ ~showAddDialog
    /\ timers < MaxTimers
    /\ Len(items) > 0
    /\ IF gsId # NotANumber /\ gsId + 1 <= Len(items)
       THEN /\ items[gsId + 1].x # pos.x
            /\ ItemsChanged([items EXCEPT ![gsId + 1] =
                    [@ EXCEPT !.x = pos.x, !.y = pos.y, !.w = pos.w, !.h = pos.h]])
       ELSE UNCHANGED <<items, cells, timers>>
    /\ UNCHANGED <<gridPhase, showAddDialog, editingIndex, editingItem>>
    /\ UNCHANGED openedByButton
    /\ UNCHANGED <<preloadVars, safeHtmlVars, imageVars, textVars, svgVars, scopeVars>>

\* A deferred callback runs (watch(items) or onMounted).
RunTimer ==
    /\ timers > 0
    /\ timers' = timers - 1
    /\ cells' = RenderLoop(cells, HtmlContainers(cells), 1)
    /\ UNCHANGED <<gridPhase, items, showAddDialog, editingIndex, editingItem>>
    /\ UNCHANGED openedByButton
    /\ UNCHANGED <<preloadVars, safeHtmlVars, imageVars, textVars, svgVars, scopeVars>>

\* onUnmounted: grid.destroy(); the rendered list leaves the document.
GridUnmount ==
    /\ gridPhase = "mounted"
    /\ gridPhase' = "unmounted"
    /\ cells' = <<>>
    /\ showAddDialog' = FALSE
    /\ UNCHANGED <<items, editingIndex, editingItem, timers>>
    /\ openedByButton' = FALSE
    /\ UNCHANGED <<preloadVars, safeHtmlVars, imageVars, textVars, svgVars, scopeVars>>

InitGrid ==
    /\ gridPhase = "setup"
    /\ items = <<>>
    /\ showAddDialog = FALSE
    /\ editingIndex = NoIndex
    /\ editingItem = BlankEditing
    /\ cells = <<>>
    /\ timers = 0
    /\ openedByButton = FALSE

(***************************************************************************)
(* processImages                                                           *)
(***************************************************************************)
NoParent == "none"
\* Elements an image can have as parentElement: a div, and an element that
\* is not an HTMLElement (an SVG foreignObject).
ParentElements == {"box", "frame"}
InstanceOfHTMLElement(p) == p = "box"
NotProcessed == "-"
Omitted == "omitted"            \* the objectFitDefault argument left out

\* Values of object-fit: unset, the five modes, and a keyword that is none
\* of them.
FitValues == {"", "cover", "contain", "fill", "none", "scale-down", "inherit"}

\* Inline style of an image the editor has not styled, and of one it has.
FreshStyle ==
    [display |-> "", visibility |-> "", objectFit |-> "", width |-> "",
     height |-> "", maxWidth |-> "", maxHeight |-> "", position |-> "",
     top |-> "", left |-> "", transform |-> ""]
EditorStyle ==
    [display |-> "none", visibility |-> "hidden", objectFit |-> "",
     width |-> "50px", height |-> "40px", maxWidth |-> "30px",
     maxHeight |-> "20px", position |-> "relative", top |-> "5px",
     left |-> "7px", transform |-> "rotate(5deg)"]
FreshBox == [position |-> "", overflow |-> "", boxSizing |-> ""]
EditorBox == [position |-> "static", overflow |-> "visible", boxSizing |-> "content-box"]

\* objectFitDefault: string = "cover"
ObjectFitDefault(arg) == IF arg = Omitted THEN "cover" ELSE arg

\* const objectFit = computedStyle.objectFit || img.style.objectFit || objectFitDefault
ResolveInlineFirst(computed, inline, default) ==
    IF inline # "" THEN inline
    ELSE IF computed # "" THEN computed
    ELSE default
ResolveObjectFit(computed, inline, default) ==
    IF computed # "" THEN computed
    ELSE IF inline # "" THEN inline
    ELSE default

\* applyObjectFitStyles(img, objectFit): the assignments of each case.
ContainStylesAsCover(st) ==
    [st EXCEPT !.objectFit = "cover", !.height = "100%", !.width = "auto",
               !.maxWidth = "none", !.position = "absolute", !.top = "0",
               !.left = "50%", !.transform = "translateX(-50%)"]
ContainStyles(st) ==
    [st EXCEPT !.objectFit = "contain", !.height = "100%", !.width = "auto",
               !.maxWidth = "none", !.position = "absolute", !.top = "0",
               !.left = "50%", !.transform = "translateX(-50%)"]
CoverStyles(st) ==
    [st EXCEPT !.objectFit = "cover", !.width = "100%", !.height = "100%",
               !.position = "absolute", !.top = "0", !.left = "0"]
FillStyles(st) ==
    [st EXCEPT !.width = "100%", !.height = "100%", !.objectFit = "fill"]
NoneStyles(st) ==
    [st EXCEPT !.maxHeight = "100%", !.width = "auto", !.position = "absolute",
               !.top = "50%", !.left = "50%",
               !.transform = "translate(-50%, -50%)"]
ScaleDownWithoutMaxWidth(st) ==
    [st EXCEPT !.maxHeight = "100%", !.width = "auto", !.position = "absolute",
               !.top = "50%", !.left = "50%",
               !.transform = "translate(-50%, -50%)"]
ScaleDownStyles(st) ==
    [st EXCEPT !.maxHeight = "100%", !.width = "auto", !.maxWidth = "none",
               !.position = "absolute", !.top = "50%", !.left = "50%",
               !.transform = "translate(-50%, -50%)"]

\* The switch of applyObjectFitStyles: a value that is none of the five
\* modes changes nothing.
ApplyObjectFitStyles(st, objectFit) ==
    CASE objectFit = "contain" -> ContainStyles(st)
      [] objectFit = "cover" -> CoverStyles(st)
      [] objectFit = "fill" -> FillStyles(st)
      [] objectFit = "none" -> NoneStyles(st)
      [] objectFit = "scale-down" -> ScaleDownStyles(st)
      [] OTHER -> st

\* img.style.display = "block"; img.style.visibility = "visible"
MakeVisibleDisplayOnly(st) == [st EXCEPT !.display = "block"]
MakeVisible(st) == [st EXCEPT !.display = "block", !.visibility = "visible"]

\* container.style.position / overflow / boxSizing
FrameParentWithoutOverflow(box) ==
    [box EXCEPT !.position = "relative", !.boxSizing = "border-box"]
FrameParent(box) ==
    [box EXCEPT !.position = "relative", !.overflow = "hidden",
                !.boxSizing = "border-box"]

\* The body of images.forEach for one image, on the document state d
\* (img, box, fit): returns the state after it.
ProcessImage(d, i, default) ==
    LET visible == MakeVisible(d.img[i].style)
        objectFit == ResolveObjectFit(computedFit[i], visible.objectFit, default)
    IN  [img |-> [d.img EXCEPT ![i] =
                     [crossOrigin |-> "anonymous",
                      style |-> ApplyObjectFitStyles(visible, objectFit)]],
         box |-> IF parentOf[i] # NoParent /\ InstanceOfHTMLElement(parentOf[i])
                 THEN [d.box EXCEPT ![parentOf[i]] = FrameParent(d.box[parentOf[i]])]
                 ELSE d.box,
         fit |-> [d.fit EXCEPT ![i] = objectFit]]

RECURSIVE ProcessFrom(_, _, _, _)
ProcessFrom(d, images, k, default) ==
    IF k > Len(images) THEN d
    ELSE ProcessFrom(ProcessImage(d, images[k], default), images, k + 1, default)

\* Collections a query can return: no element twice.
ImageLists == {s \in SeqsUpTo(Imgs, 2) : \A j, k \in 1..Len(s) : j # k => s[j] # s[k]}
DefaultArgs == {Omitted, "none"}

\* processImages(images, arg)
ProcessImages(images, arg) ==
    LET d == ProcessFrom([img |-> imgDom, box |-> boxStyle,
                          fit |-> [i \in Imgs |-> NotProcessed]],
                         images, 1, ObjectFitDefault(arg))
    IN  /\ processCalls < MaxProcess
        /\ imgDom' = d.img
        /\ boxStyle' = d.box
        /\ applied' = d.fit
        /\ pre' = [img |-> imgDom, box |-> boxStyle]
        /\ lastArgs' = [images |-> images, arg |-> arg]
        /\ streak' = IF processCalls > 0 /\ lastArgs = [images |-> images, arg |-> arg]
                     THEN streak + 1 ELSE 1
        /\ processCalls' = processCalls + 1
        /\ UNCHANGED <<computedFit, parentOf>>
        /\ UNCHANGED <<preloadVars, safeHtmlVars, gridVars, textVars, svgVars, scopeVars>>

ImagesAt(dom, fits, parents, box) ==
    /\ imgDom = dom
    /\ computedFit = fits
    /\ parentOf = parents
    /\ boxStyle = [p \in ParentElements |-> box]
    /\ pre = [img |-> dom, box |-> [p \in ParentElements |-> box]]
    /\ applied = [i \in Imgs |-> NotProcessed]
    /\ lastArgs = [images |-> <<>>, arg |-> Omitted]
    /\ streak = 0
    /\ processCalls = 0

\* img1 in any prior state; img2 an unstyled image beside it.
PriorImages ==
    {[crossOrigin |-> c, style |-> [s EXCEPT !.objectFit = f]] :
        c \in {"", "use-credentials"}, s \in {FreshStyle, EditorStyle}, f \in FitValues}
InitImages ==
    \E a \in PriorImages, fa \in FitValues, fb \in {"", "contain"},
       pa \in {NoParent} \cup ParentElements, pb \in {NoParent} \cup ParentElements,
       box \in {FreshBox, EditorBox} :
        ImagesAt([i \in Imgs |-> IF i = "img1" THEN a
                                 ELSE [crossOrigin |-> "", style |-> FreshStyle]],
                 [i \in Imgs |-> IF i = "img1" THEN fa ELSE fb],
                 [i \in Imgs |-> IF i = "img1" THEN pa ELSE pb],
                 box)
IdleImages ==
    ImagesAt([i \in Imgs |-> [crossOrigin |-> "", style |-> FreshStyle]],
             [i \in Imgs |-> ""], [i \in Imgs |-> NoParent], FreshBox)

(***************************************************************************)
(* processTextElements                                                     *)
(*                                                                         *)
(* An inline declaration is its value and its priority; "" is an unset     *)
(* value.  The collection holds one text element: an element with an       *)
(* optional .element-content descendant, which has descendants of its own. *)
(* Each element is an HTMLElement or not (an SVG or MathML element).       *)
(***************************************************************************)
Unset == [v |-> "", p |-> ""]
Plain(value) == [v |-> value, p |-> ""]

\* style.setProperty(name, value, "important")
SetPropertyPlain(value) == [v |-> value, p |-> ""]
SetPropertyImportant(value) == [v |-> value, p |-> "important"]

\* getComputedStyle(element).backgroundColor: none (detached), the two
\* spellings of the initial value, an opaque colour, a colour with alpha 0.
ComputedBackgrounds ==
    {"", "rgba(0, 0, 0, 0)", "transparent", "rgb(200, 200, 200)", "rgba(255, 255, 255, 0)"}

\* backgroundColor && backgroundColor !== "rgba(0, 0, 0, 0)" &&
\* backgroundColor !== "transparent"
HasBackground(backgroundColor) ==
    /\ backgroundColor # ""
    /\ backgroundColor # "rgba(0, 0, 0, 0)"
    /\ backgroundColor # "transparent"

\* processBlockBackground(element)
ProcessBlockBackground(t) ==
    IF HasBackground(t.computedBg)
    THEN [t EXCEPT !.backgroundColor = SetPropertyImportant(t.computedBg),
                   !.padding = SetPropertyImportant("8px")]
    ELSE t

\* textNodes.forEach: a descendant that is an HTMLElement without inline
\* colour gets the content element's colour.
PropagateColorToAll(kid, color) ==
    IF kid.html THEN [kid EXCEPT !.color = SetPropertyImportant(color)] ELSE kid
PropagateColorOrClear(kid, color) ==
    IF kid.html /\ kid.color.v = ""
    THEN [kid EXCEPT !.color = SetPropertyImportant(color)]
    ELSE [kid EXCEPT !.color = Unset]
PropagateColor(kid, color) ==
    IF kid.html /\ kid.color.v = ""
    THEN [kid EXCEPT !.color = SetPropertyImportant(color)]
    ELSE kid

\* applyFontStyles(contentElement)
ReassertPlain(decl) == IF decl.v # "" THEN SetPropertyPlain(decl.v) ELSE decl
Reassert(decl) == IF decl.v # "" THEN SetPropertyImportant(decl.v) ELSE decl
ApplyFontStyles(c) ==
    [c EXCEPT !.fontFamily = Reassert(c.fontFamily),
              !.fontSize = Reassert(c.fontSize),
              !.fontWeight = Reassert(c.fontWeight)]

\* The last step of processContentElement: the content element's own
\* background gives way to the text element's.
ClearContentBackground(c, parentBg) ==
    IF HasBackground(parentBg)
    THEN [c EXCEPT !.backgroundColor = SetPropertyImportant("transparent")]
    ELSE c

\* processContentElement(contentElement, parentElement)
ProcessContentElement(t) ==
    [t EXCEPT !.content = ClearContentBackground(ApplyFontStyles(t.content), t.computedBg),
              !.kids = IF t.content.color.v # ""
                       THEN [k \in 1..Len(t.kids) |->
                                PropagateColor(t.kids[k], t.content.color.v)]
                       ELSE t.kids]

\* The body of textElements.forEach for one element.
ProcessTextElement(t) ==
    IF ~t.html THEN t
    ELSE LET withBg == ProcessBlockBackground(t)
         IN  IF t.hasContent /\ t.content.html
             THEN ProcessContentElement(withBg)
             ELSE withBg

\* processTextElements(textElements) over the collection holding the text
\* element.
ProcessTextElements ==
    /\ textCalls < MaxTextCalls
    /\ textDom' = ProcessTextElement(textDom)
    /\ textPre' = textDom
    /\ textCalls' = textCalls + 1
    /\ UNCHANGED <<preloadVars, safeHtmlVars, gridVars, imageVars, svgVars, scopeVars>>

\* Inline state the editor can leave behind.
NoContent ==
    [html |-> TRUE, color |-> Unset, backgroundColor |-> Unset,
     fontFamily |-> Unset, fontSize |-> Unset, fontWeight |-> Unset]
ContentElements ==
    [html : BOOLEAN, color : {Unset, Plain("rgb(10, 10, 10)")},
     backgroundColor : {Unset, Plain("yellow")},
     fontFamily : {Unset, Plain("Arial")}, fontSize : {Unset, Plain("14px")},
     fontWeight : {Unset, Plain("700")}]
Descendants == [html : BOOLEAN, color : {Unset, Plain("green")}]
TextElements ==
    {[html |-> h, computedBg |-> bg, backgroundColor |-> own.b, padding |-> own.p,
      hasContent |-> FALSE, content |-> NoContent, kids |-> <<>>] :
        h \in BOOLEAN, bg \in ComputedBackgrounds,
        own \in {[b |-> Unset, p |-> Unset], [b |-> Plain("blue"), p |-> Plain("2px")]}}
    \cup
    {[html |-> h, computedBg |-> bg, backgroundColor |-> own.b, padding |-> own.p,
      hasContent |-> TRUE, content |-> c, kids |-> ks] :
        h \in BOOLEAN, bg \in ComputedBackgrounds,
        own \in {[b |-> Unset, p |-> Unset], [b |-> Plain("blue"), p |-> Plain("2px")]},
        c \in ContentElements, ks \in SeqsUpTo(Descendants, MaxKids)}

TextAt(t) ==
    /\ textDom = t
    /\ textPre = t
    /\ textCalls = 0
InitText == \E t \in TextElements : TextAt(t)
IdleText ==
    TextAt([html |-> TRUE, computedBg |-> "", backgroundColor |-> Unset,
            padding |-> Unset, hasContent |-> FALSE, content |-> NoContent,
            kids |-> <<>>])

(***************************************************************************)
(* processSvgElements                                                      *)
(*                                                                         *)
(* The collection holds one SVG root with its child elements.  An          *)
(* attribute is Null when absent; getAttribute returns its value otherwise,*)
(* which can be the empty string.                                          *)
(***************************************************************************)
Null == "null"
SvgNamespace == "http://www.w3.org/2000/svg"

\* getAttribute(name) + "px": null is spelled out by the concatenation.
PlusPx(a) ==
    CASE a = Null -> "nullpx"
      [] a = "" -> "px"
      [] a = "100" -> "100px"
      [] a = "50" -> "50px"
      [] a = "100px" -> "100pxpx"
      [] OTHER -> "?"

\* The setter of style.width / style.height: a text that is not a CSS
\* length is dropped and the declaration stays as it was.
CssLengths == {"100px", "50px", "20px"}
AssignAnyText(old, text) == text
AssignLength(old, text) == IF text \in CssLengths THEN text ELSE old

\* if (svg.style.width === "") svg.style.width = svg.getAttribute("width") + "px"
InlineSize(inline, attribute) ==
    IF inline = "" THEN AssignLength(inline, PlusPx(attribute)) ELSE inline

\* if (!svg.getAttribute("xmlns")) svg.setAttribute("xmlns", ...)
EnsureNamespaceAlways(xmlns) == SvgNamespace
EnsureNamespace(xmlns) == IF xmlns = Null \/ xmlns = "" THEN SvgNamespace ELSE xmlns

\* if (!polygon.getAttribute(name)) polygon.setAttribute(name, value)
DefaultAttributeAlways(a, value) == value
DefaultAttributeToggles(a, value) == IF a = Null \/ a = "" THEN value ELSE Null
DefaultAttribute(a, value) == IF a = Null \/ a = "" THEN value ELSE a

\* polygons.forEach callback; svg.querySelectorAll("polygon") selects by tag.
ProcessShapeAnyTag(sh) ==
    [sh EXCEPT !.fill = DefaultAttribute(sh.fill, "#E2E8F0"),
               !.stroke = DefaultAttribute(sh.stroke, "#CBD5E1"),
               !.strokeWidth = DefaultAttribute(sh.strokeWidth, "1")]
ProcessShape(sh) ==
    IF sh.tag = "polygon"
    THEN [sh EXCEPT !.fill = DefaultAttribute(sh.fill, "#E2E8F0"),
                    !.stroke = DefaultAttribute(sh.stroke, "#CBD5E1"),
                    !.strokeWidth = DefaultAttribute(sh.strokeWidth, "1")]
    ELSE sh

\* The body of svgElements.forEach for one SVG root.
ProcessSvgElement(svg) ==
    [svg EXCEPT
        !.xmlns = EnsureNamespace(svg.xmlns),
        !.style = [svg.style EXCEPT
                      !.width = InlineSize(svg.style.width, svg.width),
                      !.height = InlineSize(svg.style.height, svg.height),
                      !.display = "block",
                      !.visibility = "visible"],
        !.shapes = [k \in 1..Len(svg.shapes) |-> ProcessShape(svg.shapes[k])]]

\* processSvgElements(svgElements) over the collection holding the root.
ProcessSvgElements ==
    /\ svgCalls < MaxSvgCalls
    /\ svgDom' = ProcessSvgElement(svgDom)
    /\ svgPre' = svgDom
    /\ svgCalls' = svgCalls + 1
    /\ UNCHANGED <<preloadVars, safeHtmlVars, gridVars, imageVars, textVars, scopeVars>>

\* Documents the editor can hand over.
Shapes ==
    [tag : {"polygon"}, fill : {Null, "", "red"}, stroke : {Null, "blue"},
     strokeWidth : {Null, "3"}]
    \cup [tag : {"rect"}, fill : {Null}, stroke : {Null, "blue"}, strokeWidth : {Null}]
SvgRoots ==
    [xmlns : {Null, "", SvgNamespace, "urn:custom"},
     width : {Null, "100", "100px"},
     height : {Null, "50"},
     style : [width : {"", "20px"}, height : {"", "20px"},
              display : {"", "none"}, visibility : {"", "hidden"}],
     shapes : SeqsUpTo(Shapes, MaxShapes)]

SvgAt(svg) ==
    /\ svgDom = svg
    /\ svgPre = svg
    /\ svgCalls = 0
InitSvg == \E svg \in SvgRoots : SvgAt(svg)
IdleSvg ==
    SvgAt([xmlns |-> Null, width |-> Null, height |-> Null,
           style |-> [width |-> "", height |-> "", display |-> "", visibility |-> ""],
           shapes |-> <<>>])

(***************************************************************************)
(* processShapeElements, hideUiControls and the passes over one scope      *)
(*                                                                         *)
(* The document is the page element followed by other elements, each       *)
(* inside the page element's subtree or outside it.  An element belongs to *)
(* at most one of the collections the caller hands to the passes (images,  *)
(* SVG roots, shape containers, text elements); whatever it is, its tag,   *)
(* class and role can match a control selector.  Inline background-color   *)
(* and padding are declarations (value and priority), the other inline     *)
(* properties are in style.  An image's parentElement is a wrapper of its  *)
(* own, whose inline style is the image's box.                             *)
(***************************************************************************)
FullStyle ==
    [display |-> "", visibility |-> "", opacity |-> "", border |-> "",
     objectFit |-> "", width |-> "", height |-> "", maxWidth |-> "",
     maxHeight |-> "", position |-> "", top |-> "", left |-> "",
     transform |-> ""]

\* A div without classes, attributes, inline style or descendants.
BlankElement ==
    [kind |-> "other", html |-> TRUE, tag |-> "div", class |-> "", role |-> "",
     where |-> "inside", style |-> FullStyle, backgroundColor |-> Unset,
     padding |-> Unset, crossOrigin |-> "", computedFit |-> "",
     box |-> FreshBox, xmlns |-> Null, width |-> Null, height |-> Null,
     shapes |-> <<>>, computedBg |-> "", hasContent |-> FALSE,
     content |-> NoContent, kids |-> <<>>]

\* The selector list of hideUiControls.
ControlClasses ==
    {"resize-handle", "scroll-control", "v-navigation-drawer", "v-overlay",
     "v-menu", "v-btn--icon", "control-button", "handle", "v-slider",
     "v-input__control"}
MatchesControl(el) ==
    \/ el.class \in ControlClasses
    \/ el.tag = "button"
    \/ el.role = "button"

\* pageElement.querySelectorAll(...): descendants of the page element.
SelectedAnywhere(el) == MatchesControl(el)
Selected(el) == el.where = "inside" /\ MatchesControl(el)

\* uiElements.forEach callback
HideUiControl(el) ==
    IF el.html
    THEN [el EXCEPT !.style = [@ EXCEPT !.display = "none",
                                        !.visibility = "hidden",
                                        !.opacity = "0"]]
    ELSE el

\* element.querySelector("polygon")
HasPolygon(el) == \E k \in 1..Len(el.shapes) : el.shapes[k].tag = "polygon"

\* shapeElements.forEach callback
ProcessShapeElementBackgroundOnly(el) ==
    IF el.html /\ HasPolygon(el)
    THEN [el EXCEPT !.backgroundColor = Plain("transparent")]
    ELSE el
ProcessShapeElement(el) ==
    IF el.html /\ HasPolygon(el)
    THEN [el EXCEPT !.backgroundColor = Plain("transparent"),
                    !.style = [@ EXCEPT !.border = "none"]]
    ELSE el

\* images.forEach callback of processImages, for an image in its wrapper.
ProcessImageElement(el, default) ==
    LET visible == MakeVisible(el.style)
        objectFit == ResolveObjectFit(el.computedFit, visible.objectFit, default)
    IN  [el EXCEPT !.crossOrigin = "anonymous",
                   !.style = ApplyObjectFitStyles(visible, objectFit),
                   !.box = FrameParent(el.box)]

\* The collections the caller queries from the page element.
InCollection(el, kind) == el.where = "inside" /\ el.kind = kind

Passes == {"images", "svg", "shapes", "text", "hide"}

\* The document after one pass over the page element.
PassResult(p, s) ==
    [k \in 1..Len(s) |->
        CASE p = "images" /\ InCollection(s[k], "img") ->
                 ProcessImageElement(s[k], ObjectFitDefault(Omitted))
          [] p = "svg" /\ InCollection(s[k], "svg") -> ProcessSvgElement(s[k])
          [] p = "shapes" /\ InCollection(s[k], "shape") -> ProcessShapeElement(s[k])
          [] p = "text" /\ InCollection(s[k], "text") -> ProcessTextElement(s[k])
          [] p = "hide" /\ Selected(s[k]) -> HideUiControl(s[k])
          [] OTHER -> s[k]]

RunPass(p) ==
    /\ p \notin passesDone
    /\ scope' = PassResult(p, scope)
    /\ passesDone' = passesDone \cup {p}
    /\ UNCHANGED scope0
    /\ UNCHANGED <<preloadVars, safeHtmlVars, gridVars, imageVars, textVars, svgVars>>

\* The five passes, each over the page element or the collection queried
\* from it.
ScopeProcessImages == RunPass("images")
ScopeProcessSvgElements == RunPass("svg")
ProcessShapeElements == RunPass("shapes")
ScopeProcessTextElements == RunPass("text")
HideUiControls == RunPass("hide")
NextScope ==
    \/ ScopeProcessImages
    \/ ScopeProcessSvgElements
    \/ ProcessShapeElements
    \/ ScopeProcessTextElements
    \/ HideUiControls

\* Page elements: a plain section, and one that is itself an overlay.
ScopeRoots ==
    {[BlankElement EXCEPT !.where = "root"],
     [BlankElement EXCEPT !.where = "root", !.class = "v-overlay",
                          !.style = [@ EXCEPT !.display = "flex"]]}

\* The other elements of the document.
ScopeElements ==
    \* images: plain, a drag handle, one the editor has hidden
    {[BlankElement EXCEPT !.kind = "img", !.tag = "img", !.class = c,
                          !.style = [@ EXCEPT !.display = d]] :
        c \in {"", "handle"}, d \in {"", "none"}}
    \cup
    \* SVG roots: plain and a resize handle
    {[BlankElement EXCEPT !.kind = "svg", !.html = FALSE, !.tag = "svg",
                          !.class = c, !.width = "100",
                          !.shapes = <<[tag |-> "polygon", fill |-> Null,
                                        stroke |-> "blue", strokeWidth |-> Null]>>] :
        c \in {"", "resize-handle"}}
    \cup
    \* shape containers: a div or an SVG group, around a polygon or a rect
    {[BlankElement EXCEPT !.kind = "shape", !.html = h,
                          !.tag = IF h THEN "div" ELSE "g",
                          !.backgroundColor = Plain("red"),
                          !.padding = Plain("2px"),
                          !.style = [@ EXCEPT !.border = "1px solid", !.opacity = "0.5"],
                          !.shapes = <<[tag |-> t, fill |-> "red", stroke |-> Null,
                                        strokeWidth |-> Null]>>] :
        h \in BOOLEAN, t \in {"polygon", "rect"}}
    \cup
    \* a shape container that is also a control button
    {[BlankElement EXCEPT !.kind = "shape", !.class = "control-button",
                          !.shapes = <<[tag |-> "polygon", fill |-> Null,
                                        stroke |-> Null, strokeWidth |-> Null]>>]}
    \cup
    \* text elements: with a background and coloured content; as a button
    {[BlankElement EXCEPT !.kind = "text", !.role = r,
                          !.computedBg = "rgb(200, 200, 200)",
                          !.hasContent = TRUE,
                          !.content = [NoContent EXCEPT
                                          !.color = Plain("rgb(10, 10, 10)"),
                                          !.fontSize = Plain("14px")],
                          !.kids = <<[html |-> TRUE, color |-> Unset]>>] :
        r \in {"", "button"}}
    \cup
    \* other elements: a div, a button, an SVG group with role=button
    {BlankElement,
     [BlankElement EXCEPT !.tag = "button", !.style = [@ EXCEPT !.position = "fixed"]],
     [BlankElement EXCEPT !.html = FALSE, !.tag = "g", !.role = "button"]}
    \cup
    \* outside the page element: the toolbar's button, another page's image
    {[BlankElement EXCEPT !.where = "outside", !.tag = "button"],
     [BlankElement EXCEPT !.where = "outside", !.kind = "img", !.tag = "img"]}

ScopeAt(s) ==
    /\ scope = s
    /\ scope0 = s
    /\ passesDone = {}
InitScope ==
    \E root \in ScopeRoots, els \in SeqsUpTo(ScopeElements, MaxScope) :
        ScopeAt(<<root>> \o els)
\* No page is being exported.
IdleScope == ScopeAt(<<>>)

(***************************************************************************)
(* Claims about the readiness barrier                                      *)
(***************************************************************************)

\* C1: the returned promise is never resolved while an image of the
\* collection that was incomplete at call time has fired neither load nor
\* error; an image that was complete at call time is settled from the start.
C1_ResolvedOnlyAfterAllSettled ==
    \A c \in Calls :
        /\ outer[c].state = "resolved" => atCall[c] \subseteq fired[c]
        /\ Started(c) =>
              \A k \in 1..Len(coll[c]) :
                  coll[c][k] \notin atCall[c] => inner[c][k] = "fulfilled"

\* C1 witness: a mixed collection (one image complete at call time, one
\* that settled later) whose promise has resolved.
C1_Witness ==
    \E c \in Calls :
        /\ outer[c].state = "resolved"
        /\ atCall[c] # {}
        /\ \E k \in 1..Len(coll[c]) : coll[c][k] \notin atCall[c]

\* C2: the barrier runs to completion: once every image that was incomplete
\* at call time has fired load or error, the returned promise is resolved or
\* its settling microtask is ready to run; with nothing incomplete at call
\* time this holds without any event.
C2_RunsToCompletion ==
    \A c \in Calls :
        (Started(c) /\ atCall[c] \subseteq fired[c]) =>
            (outer[c].state = "resolved" \/ AllFulfilled(c))

\* C3: the promise never rejects: an error event fulfils the element promise
\* whose handler is installed exactly as a load event does, and a settled
\* barrier is resolved with no value.
C3_NeverRejects ==
    /\ \A c \in Calls :
          /\ outer[c].state # "rejected"
          /\ outer[c].state = "resolved" => outer[c].value = "undefined"
          /\ \A k \in 1..Len(inner[c]) : inner[c][k] # "rejected"
    /\ \A i \in Imgs :
          (Complete(i) /\ onerror[i] # NoHandler) =>
              /\ onload[i] = onerror[i]
              /\ inner[onerror[i][1]][onerror[i][2]] = "fulfilled"

\* C3 witness: a barrier resolved after one of its pending images failed.
C3_Witness ==
    \E c \in Calls :
        /\ outer[c].state = "resolved"
        /\ \E i \in atCall[c] : imgState[i] = "broken"


(***************************************************************************)
(* Claims about the SafeHtml component                                     *)
(***************************************************************************)
SafeHtmlOutput(h) == SanitizeNodes(h.frag, SafeHtmlTags, SafeHtmlAttrs)

\* C4: while the component is mounted and no change of the html prop awaits
\* its handler, the whole content of the container is the sanitiser's output
\* for the current html (whenever the sanitiser has an output for it).
C4_ContainerIsSanitizedCurrentHtml ==
    (shPhase = "mounted" /\ ~watchPending /\ html.str) =>
        container = SafeHtmlOutput(html)

\* C4 witness: the handler of a later change has run and rendered a
\* non-empty fragment.
C4_Witness ==
    /\ shPhase = "mounted"
    /\ ~watchPending
    /\ shRenders >= 2
    /\ lastRender = "ok"
    /\ html = watchOld
    /\ container # NoFragment

GridOutput(c) == SanitizeNodes(c, GridTags, GridAttrs)
Allowed(f, tags, attrs) == TagsOf(f) \subseteq tags /\ AttrsOf(f) \subseteq attrs
\* Everything the sanitiser can return in each render context.
SafeHtmlOutputs == {SafeHtmlOutput(StringOf(f)) : f \in Fragments}
GridOutputs == {GridOutput(c) : c \in GridContents}

C6_FailureContained ==
    [][(shRenders' # shRenders /\ lastRender' = "threw")
          => (~escaped' /\ container' = container)]_vars

(***************************************************************************)
(* Claims about processImages                                              *)
(***************************************************************************)
Processed == {lastArgs.images[k] : k \in 1..Len(lastArgs.images)}

\* C7: processImages is idempotent: a call that directly follows a call
\* with the same arguments (and the same computed styles) leaves the inline
\* style and crossOrigin of every image, and the parent's inline style, as
\* the first call left them.
C7_ProcessImagesIdempotent ==
    streak >= 2 => (imgDom = pre.img /\ boxStyle = pre.box)

\* C7 witness: a repeated call over both images, one of them with a parent
\* and normalised as contain.
C7_Witness ==
    /\ streak >= 2
    /\ Len(lastArgs.images) = 2
    /\ applied["img1"] = "contain"
    /\ parentOf["img1"] # NoParent

\* C8 as stated: the effective object-fit is the inline value if set, else
\* the computed value, else the default argument ("cover" when omitted).
C8_InlineDecides ==
    processCalls >= 1 =>
        \A i \in Processed :
            applied[i] =
                IF pre.img[i].style.objectFit # "" THEN pre.img[i].style.objectFit
                ELSE IF computedFit[i] # "" THEN computedFit[i]
                ELSE IF lastArgs.arg = Omitted THEN "cover" ELSE lastArgs.arg

\* C8 amended: the effective object-fit is the computed value if there is
\* one, else the inline value if set, else the default argument ("cover"
\* when omitted); where inline and computed values differ, the computed
\* value decides.
C8_ComputedDecides ==
    processCalls >= 1 =>
        \A i \in Processed :
            applied[i] =
                IF computedFit[i] # "" THEN computedFit[i]
                ELSE IF pre.img[i].style.objectFit # "" THEN pre.img[i].style.objectFit
                ELSE IF lastArgs.arg = Omitted THEN "cover" ELSE lastArgs.arg

\* C8 witness: an image whose inline and computed object-fit differ has
\* been normalised under the computed one.
C8_Witness ==
    /\ processCalls >= 1
    /\ "img1" \in Processed
    /\ pre.img["img1"].style.objectFit = "contain"
    /\ computedFit["img1"] = "cover"
    /\ applied["img1"] = "cover"
    /\ imgDom["img1"].style.left = "0"

\* C9: after processImages the inline style of each image matches the rule
\* of the mode it was normalised under: cover, contain, fill (which leaves
\* position, top, left and transform as they were), none, scale-down.
C9_FitModeRules ==
    processCalls >= 1 =>
        \A i \in Processed :
            LET st == imgDom[i].style
                was == pre.img[i].style
                m == applied[i]
            IN  /\ m = "cover" =>
                      /\ st.objectFit = "cover" /\ st.width = "100%"
                      /\ st.height = "100%" /\ st.position = "absolute"
                      /\ st.top = "0" /\ st.left = "0"
                /\ m = "contain" =>
                      /\ st.objectFit = "contain" /\ st.height = "100%"
                      /\ st.width = "auto" /\ st.maxWidth = "none"
                      /\ st.position = "absolute" /\ st.top = "0"
                      /\ st.left = "50%" /\ st.transform = "translateX(-50%)"
                /\ m = "fill" =>
                      /\ st.objectFit = "fill" /\ st.width = "100%"
                      /\ st.height = "100%"
                      /\ st.position = was.position /\ st.top = was.top
                      /\ st.left = was.left /\ st.transform = was.transform
                /\ m \in {"none", "scale-down"} =>
                      /\ st.maxHeight = "100%" /\ st.width = "auto"
                      /\ st.position = "absolute" /\ st.top = "50%"
                      /\ st.left = "50%"
                      /\ st.transform = "translate(-50%, -50%)"
                /\ m = "scale-down" => st.maxWidth = "none"

\* C9 witness: an image the editor had styled, normalised as scale-down.
C9_Witness ==
    /\ processCalls >= 1
    /\ applied["img1"] = "scale-down"
    /\ pre.img["img1"].style.maxWidth = "30px"

\* C10: after processImages every image of the collection has crossOrigin
\* anonymous, display block and visibility visible.
C10_AnonymousAndVisible ==
    processCalls >= 1 =>
        \A i \in Processed :
            /\ imgDom[i].crossOrigin = "anonymous"
            /\ imgDom[i].style.display = "block"
            /\ imgDom[i].style.visibility = "visible"

\* C10 witness: a hidden, credentialed image without a parent whose
\* object-fit is none of the five modes has been processed.
C10_Witness ==
    /\ processCalls >= 1
    /\ "img1" \in Processed
    /\ pre.img["img1"].style.visibility = "hidden"
    /\ pre.img["img1"].crossOrigin = "use-credentials"
    /\ applied["img1"] = "inherit"
    /\ parentOf["img1"] = NoParent

\* C11 as stated: after processImages the parent element of every processed
\* image that has one has inline position relative, overflow hidden and
\* box-sizing border-box.
C11_EveryParentFramed ==
    processCalls >= 1 =>
        \A i \in Processed :
            parentOf[i] # NoParent => boxStyle[parentOf[i]] = FrameParent(pre.box[parentOf[i]])

\* C11 amended: the parent of every processed image is framed (position
\* relative, overflow hidden, box-sizing border-box, nothing else changed)
\* when it is an HTMLElement; a parent that is not an HTMLElement, and an
\* element that is the parent of no processed image, keep their inline
\* style; an image without a parent is normalised all the same.
C11_HtmlParentFramed ==
    processCalls >= 1 =>
        /\ \A p \in ParentElements :
              boxStyle[p] =
                  IF InstanceOfHTMLElement(p) /\ \E i \in Processed : parentOf[i] = p
                  THEN [pre.box[p] EXCEPT !.position = "relative",
                                          !.overflow = "hidden",
                                          !.boxSizing = "border-box"]
                  ELSE pre.box[p]
        /\ \A i \in Processed :
              parentOf[i] = NoParent =>
                  /\ imgDom[i].crossOrigin = "anonymous"
                  /\ imgDom[i].style.display = "block"
                  /\ applied[i] # NotProcessed

\* C11 witness: one call over an image inside a div whose style the editor
\* had set and an image without a parent.
C11_Witness ==
    /\ processCalls >= 1
    /\ Len(lastArgs.images) = 2
    /\ parentOf["img1"] = "box"
    /\ parentOf["img2"] = NoParent
    /\ pre.box["box"] = EditorBox
    /\ boxStyle["box"].overflow = "hidden"

(***************************************************************************)
(* Claims about processTextElements                                        *)
(***************************************************************************)
\* A colour that paints something: not empty, not the keyword transparent,
\* not a colour whose alpha is 0.
AlphaZero(c) == c \in {"rgba(0, 0, 0, 0)", "rgba(255, 255, 255, 0)"}
RealColor(c) == c # "" /\ c # "transparent" /\ ~AlphaZero(c)
ContentProcessed == textPre.html /\ textPre.hasContent /\ textPre.content.html

\* C12, for a text element that is an HTMLElement: after processTextElements
\* it has inline background-color equal to its computed background, with
\* priority important, and inline padding 8px important, if and only if its
\* computed background is a real, non-transparent colour; otherwise neither
\* is written; with or without a content sub-element.
C12_BackgroundCarriedForward ==
    (textCalls >= 1 /\ textPre.html) =>
        IF RealColor(textPre.computedBg)
        THEN /\ textDom.backgroundColor = [v |-> textPre.computedBg, p |-> "important"]
             /\ textDom.padding = [v |-> "8px", p |-> "important"]
        ELSE /\ textDom.backgroundColor = textPre.backgroundColor
             /\ textDom.padding = textPre.padding

C14_BackgroundExclusive ==
    (textCalls >= 1 /\ ContentProcessed) =>
        textDom.content.backgroundColor =
            IF RealColor(textPre.computedBg)
            THEN [v |-> "transparent", p |-> "important"]
            ELSE textPre.content.backgroundColor

\* C15 as stated: each of font-family, font-size and font-weight that the
\* content sub-element has set inline keeps its value and has priority
\* important afterwards; each that is not set stays unset.
C15_FontsReasserted ==
    (textCalls >= 1 /\ textPre.hasContent) =>
        \A f \in {"fontFamily", "fontSize", "fontWeight"} :
            textDom.content[f] =
                IF textPre.content[f].v # ""
                THEN [v |-> textPre.content[f].v, p |-> "important"]
                ELSE Unset

\* C15 amended: when the text element and its content sub-element are
\* HTMLElements, each of font-family, font-size and font-weight that the
\* content sub-element has set inline keeps its value and has priority
\* important afterwards, and each that is not set stays unset; otherwise the
\* three declarations are as they were.
C15_HtmlFontsReasserted ==
    textCalls >= 1 =>
        \A f \in {"fontFamily", "fontSize", "fontWeight"} :
            textDom.content[f] =
                IF ContentProcessed /\ textPre.content[f].v # ""
                THEN [v |-> textPre.content[f].v, p |-> "important"]
                ELSE textPre.content[f]

\* C15 witness: a content element with font-size set and font-family unset.
C15_Witness ==
    /\ textCalls >= 1
    /\ ContentProcessed
    /\ textPre.content.fontSize = [v |-> "14px", p |-> ""]
    /\ textDom.content.fontSize = [v |-> "14px", p |-> "important"]
    /\ textPre.content.fontFamily = Unset
    /\ textDom.content.fontWeight.v = "700"

\* C16: processTextElements is idempotent: a second call in succession
\* leaves every inline declaration (value and priority) of the text
\* element, its content sub-element and the descendants as the first call
\* left them.
C16_ProcessTextElementsIdempotent ==
    textCalls >= 2 => textDom = textPre

\* C16 witness: two calls over a text element with a real background, a
\* coloured content element with fonts, and descendants with and without a
\* colour of their own.
C16_Witness ==
    /\ textCalls >= 2
    /\ textDom.html /\ textDom.hasContent /\ textDom.content.html
    /\ textDom.computedBg = "rgb(200, 200, 200)"
    /\ textDom.padding.v = "8px"
    /\ textDom.content.fontFamily.p = "important"
    /\ \E j, k \in 1..Len(textDom.kids) :
          /\ textDom.kids[j].color.v = "green"
          /\ textDom.kids[k].color = [v |-> "rgb(10, 10, 10)", p |-> "important"]

(***************************************************************************)
(* Claims about processSvgElements                                         *)
(***************************************************************************)
\* C17 as stated: a root without xmlns attribute has the SVG namespace
\* afterwards; a root that has an xmlns attribute keeps its value.
C17_NamespacePresenceDecides ==
    svgCalls >= 1 =>
        svgDom.xmlns = IF svgPre.xmlns = Null THEN SvgNamespace ELSE svgPre.xmlns

\* C17 amended: a root whose xmlns attribute is absent or empty has the SVG
\* namespace afterwards; a root with a non-empty xmlns keeps its value.
C17_NamespaceValueDecides ==
    svgCalls >= 1 =>
        svgDom.xmlns = IF svgPre.xmlns \in {Null, ""} THEN SvgNamespace ELSE svgPre.xmlns

\* C17 witness: a root that had a namespace of its own has been processed.
C17_Witness ==
    /\ svgCalls = 1
    /\ svgPre.xmlns = "urn:custom"
    /\ svgDom.xmlns = "urn:custom"
    /\ svgDom.style.display = "block"

\* C18 as stated: on every polygon each of fill, stroke and stroke-width is
\* set to its default when missing and keeps its value when present; an
\* element that is not a polygon has no attribute written.
C18_PolygonPresenceDecides ==
    svgCalls >= 1 =>
        \A k \in 1..Len(svgPre.shapes) :
            LET was == svgPre.shapes[k]
                now == svgDom.shapes[k]
            IN  IF was.tag = "polygon"
                THEN /\ now.fill = IF was.fill = Null THEN "#E2E8F0" ELSE was.fill
                     /\ now.stroke = IF was.stroke = Null THEN "#CBD5E1" ELSE was.stroke
                     /\ now.strokeWidth =
                           IF was.strokeWidth = Null THEN "1" ELSE was.strokeWidth
                ELSE now = was

\* C18 amended: on every polygon each of fill, stroke and stroke-width is
\* decided on its own: one that is absent or empty is set to #E2E8F0,
\* #CBD5E1 and 1 respectively, a non-empty one keeps its value; an element
\* that is not a polygon has no attribute written.
C18_PolygonValueDecides ==
    svgCalls >= 1 =>
        /\ Len(svgDom.shapes) = Len(svgPre.shapes)
        /\ \A k \in 1..Len(svgPre.shapes) :
              LET was == svgPre.shapes[k]
                  now == svgDom.shapes[k]
              IN  IF was.tag = "polygon"
                  THEN /\ now.tag = "polygon"
                       /\ now.fill = IF was.fill \in {Null, ""} THEN "#E2E8F0" ELSE was.fill
                       /\ now.stroke =
                             IF was.stroke \in {Null, ""} THEN "#CBD5E1" ELSE was.stroke
                       /\ now.strokeWidth =
                             IF was.strokeWidth \in {Null, ""} THEN "1" ELSE was.strokeWidth
                  ELSE now = was

\* C18 witness: a polygon that had a fill and no stroke has been processed.
C18_Witness ==
    /\ svgCalls = 1
    /\ \E k \in 1..Len(svgPre.shapes) :
          /\ svgPre.shapes[k].tag = "polygon"
          /\ svgPre.shapes[k].fill = "red"
          /\ svgPre.shapes[k].stroke = Null
          /\ svgDom.shapes[k].fill = "red"
          /\ svgDom.shapes[k].stroke = "#CBD5E1"

\* The pixel length an attribute value stands for.
PixelLength(a) ==
    CASE a = "100" -> "100px"
      [] a = "100px" -> "100px"
      [] a = "50" -> "50px"

\* C19: a root whose inline width (height) is unset and that has a width
\* (height) attribute has the attribute's value as a pixel length as inline
\* width (height) afterwards; an inline width (height) that was set is
\* unchanged; each of the two is decided on its own.
C19_SizeInlined ==
    svgCalls >= 1 =>
        /\ svgDom.style.width =
              IF svgPre.style.width # "" THEN svgPre.style.width
              ELSE IF svgPre.width # Null THEN PixelLength(svgPre.width)
              ELSE svgDom.style.width
        /\ svgDom.style.height =
              IF svgPre.style.height # "" THEN svgPre.style.height
              ELSE IF svgPre.height # Null THEN PixelLength(svgPre.height)
              ELSE svgDom.style.height

\* C20: for a root with neither width (height) attribute nor inline width
\* (height), no inline width (height) is written, and the namespace,
\* visibility and polygon steps are applied all the same.
MissingWidth == svgPre.width = Null /\ svgPre.style.width = ""
MissingHeight == svgPre.height = Null /\ svgPre.style.height = ""
C20_MissingSizeIsNoOp ==
    svgCalls >= 1 =>
        /\ MissingWidth => svgDom.style.width = ""
        /\ MissingHeight => svgDom.style.height = ""
        /\ (MissingWidth \/ MissingHeight) =>
              /\ svgDom.xmlns \notin {Null, ""}
              /\ svgDom.style.display = "block"
              /\ svgDom.style.visibility = "visible"
              /\ \A k \in 1..Len(svgDom.shapes) :
                    svgDom.shapes[k].tag = "polygon" =>
                        /\ svgDom.shapes[k].fill \notin {Null, ""}
                        /\ svgDom.shapes[k].stroke \notin {Null, ""}
                        /\ svgDom.shapes[k].strokeWidth \notin {Null, ""}

\* C20 witness: a hidden root with no size at all, no namespace and a bare
\* polygon has been processed.
C20_Witness ==
    /\ svgCalls = 1
    /\ MissingWidth /\ MissingHeight
    /\ svgPre.xmlns = Null
    /\ svgPre.style.visibility = "hidden"
    /\ svgDom.xmlns = SvgNamespace
    /\ \E k \in 1..Len(svgPre.shapes) :
          /\ svgPre.shapes[k].tag = "polygon"
          /\ svgPre.shapes[k].fill = Null
          /\ svgDom.shapes[k].fill = "#E2E8F0"

\* C21: processSvgElements is idempotent: a second call in succession
\* leaves the attributes and inline style of the root and the attributes of
\* its child elements as the first call left them.
C21_ProcessSvgElementsIdempotent ==
    svgCalls >= 2 => svgDom = svgPre

\* C21 witness: two calls over a root that had no namespace, a unitless
\* width attribute, an inline height of its own and a polygon without fill.
C21_Witness ==
    /\ svgCalls >= 2
    /\ svgDom.xmlns = SvgNamespace
    /\ svgDom.width = "100"
    /\ svgDom.style.width = "100px"
    /\ svgDom.style.height = "20px"
    /\ \E k \in 1..Len(svgDom.shapes) :
          /\ svgDom.shapes[k].tag = "polygon"
          /\ svgDom.shapes[k].fill = "#E2E8F0"
          /\ svgDom.shapes[k].stroke = "blue"

(***************************************************************************)
(* Claim about overlapping readiness barriers                              *)
(***************************************************************************)
\* C26: every promise preloadImages created for an image that was pending
\* at the call is fulfilled once that image has fired load or error, also
\* when a later call, or a later element of the same collection, installed
\* handlers on the same image in between.
C26_NoPromiseLeftPending ==
    \A c \in Calls :
        \A k \in 1..Len(coll[c]) :
            (Started(c) /\ coll[c][k] \in atCall[c] /\ coll[c][k] \in fired[c]) =>
                inner[c][k] = "fulfilled"

(***************************************************************************)
(* Claims about processShapeElements, hideUiControls and the pass order    *)
(***************************************************************************)
\* The step in which pass p runs.
PassStep(p) == p \in passesDone' /\ p \notin passesDone

\* C22 (as stated): after processShapeElements every shape container that
\* has a polygon descendant has inline background-color transparent and
\* border none, and every shape container without one is unchanged.
C22_EveryPolygonContainer ==
    [][PassStep("shapes") =>
        \A k \in 1..Len(scope) :
            (scope[k].where = "inside" /\ scope[k].kind = "shape") =>
                IF HasPolygon(scope[k])
                THEN /\ scope'[k].backgroundColor = Plain("transparent")
                     /\ scope'[k].style.border = "none"
                ELSE scope'[k] = scope[k]]_vars

\* C22 (amended): after processShapeElements every shape container that is
\* an HTMLElement and has a polygon descendant has inline background-color
\* transparent and border none and is otherwise unchanged; every other
\* element of the document is unchanged.
C22_HtmlPolygonContainer ==
    [][PassStep("shapes") =>
        \A k \in 1..Len(scope) :
            IF /\ scope[k].where = "inside" /\ scope[k].kind = "shape"
               /\ scope[k].html /\ HasPolygon(scope[k])
            THEN scope'[k] = [scope[k] EXCEPT
                                 !.backgroundColor = Plain("transparent"),
                                 !.style = [@ EXCEPT !.border = "none"]]
            ELSE scope'[k] = scope[k]]_vars

\* processShapeElements has run over a div around a polygon that had a red
\* background and a border, next to a container without polygon.
C22_Witness ==
    /\ passesDone = {"shapes"}
    /\ \E k \in 1..Len(scope) :
        /\ scope[k].kind = "shape" /\ scope[k].html /\ HasPolygon(scope[k])
        /\ scope0[k].backgroundColor = Plain("red")
        /\ scope0[k].style.border = "1px solid"
        /\ scope[k].backgroundColor = Plain("transparent")
        /\ scope[k].style.border = "none"
    /\ \E k \in 1..Len(scope) :
        /\ scope[k].kind = "shape" /\ ~HasPolygon(scope[k])
        /\ scope[k].backgroundColor = Plain("red")

\* C23: right after hideUiControls, every element inside the page element
\* that matches a control selector has display none, visibility hidden and
\* opacity 0, whatever kind of element it is.
C23_EveryControlHidden ==
    [][PassStep("hide") =>
        \A k \in 1..Len(scope) :
            (scope[k].where = "inside" /\ MatchesControl(scope[k])) =>
                /\ scope'[k].style.display = "none"
                /\ scope'[k].style.visibility = "hidden"
                /\ scope'[k].style.opacity = "0"]_vars

\* C24: hideUiControls changes nothing on elements outside the page
\* element, on descendants that match no control selector and on the page
\* element itself; on a matched descendant it changes at most display,
\* visibility and opacity.
C24_HideIsScopeLocal ==
    [][PassStep("hide") =>
        \A k \in 1..Len(scope) :
            IF scope[k].where = "inside" /\ MatchesControl(scope[k])
            THEN scope'[k] = [scope[k] EXCEPT
                                 !.style = [@ EXCEPT
                                     !.display = scope'[k].style.display,
                                     !.visibility = scope'[k].style.visibility,
                                     !.opacity = scope'[k].style.opacity]]
            ELSE scope'[k] = scope[k]]_vars

\* hideUiControls has run over a page element that is itself an overlay,
\* with a button inside (hidden, its position kept) and a button outside.
C24_Witness ==
    /\ passesDone = {"hide"}
    /\ Len(scope) = 3
    /\ scope[1].class = "v-overlay" /\ scope[1] = scope0[1]
    /\ \E j, k \in 2..3 :
        /\ scope[j].where = "inside" /\ scope[j].tag = "button"
        /\ scope[j].style.display = "none" /\ scope[j].style.position = "fixed"
        /\ scope0[j].style.display = ""
        /\ scope[k].where = "outside" /\ scope[k].tag = "button"
        /\ scope[k] = scope0[k]

\* The document after the five passes in the order images, SVG, shapes,
\* text, controls.
InListedOrder ==
    PassResult("hide", PassResult("text", PassResult("shapes",
        PassResult("svg", PassResult("images", scope0)))))

\* C25: whatever the order in which the five passes ran, the document ends
\* in the same state (the one the listed order gives).
C25_PassesCommute ==
    passesDone = Passes => scope = InListedOrder

(***************************************************************************)
(* Claim about the fit-related style of an image                           *)
(***************************************************************************)
\* The fit-related inline properties of a style.
FitPart(st) ==
    [objectFit |-> st.objectFit, width |-> st.width, height |-> st.height,
     maxWidth |-> st.maxWidth, maxHeight |-> st.maxHeight,
     position |-> st.position, top |-> st.top, left |-> st.left,
     transform |-> st.transform]

\* C29: the fit-related inline style of an image that processImages has
\* just processed depends on the resolved fit mode only: it is the one a
\* fresh image gets under that mode, whatever the image carried before.
C29_FitStyleFromModeAlone ==
    \A i \in Imgs :
        applied[i] # NotProcessed =>
            FitPart(imgDom[i].style) =
                FitPart(ApplyObjectFitStyles(FreshStyle, applied[i]))

(***************************************************************************)
(* Claims about the grid layout's items                                    *)
(***************************************************************************)
\* C27: while the grid is mounted and no deferred render is pending, every
\* item whose content is detected as HTML has a .html-content container of
\* its own that shows the sanitised form of that item's content.
C27_EveryHtmlItemRendered ==
    (gridPhase = "mounted" /\ timers = 0) =>
        \A i \in 1..Len(items) :
            IsHtmlContent(items[i].content) =>
                /\ i <= Len(cells)
                /\ cells[i].html
                /\ cells[i].inner = GridOutput(items[i].content)

\* The step in which the dialog's Save button runs saveItem.
SaveStep == showAddDialog /\ ~showAddDialog' /\ timers' = timers + 1

\* C28: a Save in a dialog that was opened by the Add Block button appends
\* exactly one item and leaves every existing item as it was.
C28_AddBlockAppends ==
    [][(SaveStep /\ openedByButton) =>
        /\ Len(items') = Len(items) + 1
        /\ \A i \in 1..Len(items) : items'[i] = items[i]]_vars

\* C30: a Save that ends the edit of an existing item leaves the item's x,
\* y, w and h and every other item as they were.
C30_EditKeepsPosition ==
    [][(SaveStep /\ ~openedByButton /\ editingIndex \in 1..Len(items)) =>
        /\ Len(items') = Len(items)
        /\ \A i \in 1..Len(items) :
              IF i = editingIndex
              THEN /\ items'[i].x = items[i].x /\ items'[i].y = items[i].y
                   /\ items'[i].w = items[i].w /\ items'[i].h = items[i].h
              ELSE items'[i] = items[i]]_vars

(***************************************************************************)
(* Specifications                                                          *)
(***************************************************************************)
Call == \E c \in Calls, images \in Collections : PreloadImages(c, images)
Load == \E i \in Imgs : FireLoad(i)
Error == \E i \in Imgs : FireError(i)
Settle == \E c \in Calls : Join(c)

Init == InitPreload /\ InitSafeHtml /\ InitGrid /\ IdleImages /\ IdleText /\ IdleSvg /\ IdleScope
Next == Call \/ Load \/ Error \/ Settle
Spec == Init /\ [][Next]_vars

Create == \E h \in HtmlValues : Mount(h)
Rebind == \E h \in HtmlValues : SetHtml(h)
InitRender == IdlePreload /\ InitSafeHtml /\ InitGrid /\ IdleImages /\ IdleText /\ IdleSvg /\ IdleScope
NextSafeHtml == Create \/ Rebind \/ RunWatcher \/ Unmount
SpecSafeHtml == InitRender /\ [][NextSafeHtml]_vars

Edit == \E i \in 1..MaxItems : EditItem(i)
Remove == \E i \in 1..MaxItems : RemoveItem(i)
Type == \/ \E t \in Titles : TypeTitle(t)
        \/ \E c \in GridContents : TypeContent(c)
Change == \E gsId \in {NotANumber} \cup 0..(MaxItems - 1), pos \in GridPositions :
              GridChange(gsId, pos)
\* The grid layout's handlers that decide what is rendered, and all of them.
NextGridContent ==
    \/ GridMount \/ AddItem \/ ClickAddBlock \/ Edit \/ Type \/ ClickCancel
    \/ SaveItem \/ Remove \/ RunTimer \/ GridUnmount
NextGrid == NextGridContent \/ Change
SpecGrid == InitRender /\ [][NextGrid]_vars

\* A page hosting a SafeHtml component or a grid layout: everything that
\* writes into a safe-render container.
SpecRender == InitRender /\ [][NextSafeHtml \/ NextGridContent]_vars

Normalize == \E images \in ImageLists, arg \in DefaultArgs : ProcessImages(images, arg)
InitNormalize == IdlePreload /\ InitSafeHtml /\ InitGrid /\ InitImages /\ IdleText /\ IdleSvg /\ IdleScope
SpecImages == InitNormalize /\ [][Normalize]_vars

InitNormalizeText == IdlePreload /\ InitSafeHtml /\ InitGrid /\ IdleImages /\ InitText /\ IdleSvg /\ IdleScope
SpecText == InitNormalizeText /\ [][ProcessTextElements]_vars

InitNormalizeScope ==
    IdlePreload /\ InitSafeHtml /\ InitGrid /\ IdleImages /\ IdleText /\ IdleSvg /\ InitScope
SpecScope == InitNormalizeScope /\ [][NextScope]_vars

InitNormalizeSvg ==
    IdlePreload /\ InitSafeHtml /\ InitGrid /\ IdleImages /\ IdleText /\ InitSvg /\ IdleScope
SpecSvg == InitNormalizeSvg /\ [][ProcessSvgElements]_vars

====
